---- MODULE Spec2Model ----
(***************************************************************************)
(* Currency converter (src/sample_project.py): the rate resolver           *)
(* CurrencyAPI, the rate cache and the conversion history of               *)
(* DatabaseManager.                                                        *)
(*                                                                         *)
(* Rates are floats in the source; here a rate is the integer number of    *)
(* hundredths (0.85 is 85).  A Python dict is a function from its keys.    *)
(***************************************************************************)
EXTENDS Integers, Sequences, FiniteSets, TLC

VARIABLES
    api_key,            \* CurrencyAPI.api_key
    pc,                 \* position of the get_exchange_rates call in progress
    base_currency,      \* its argument
    free_idx,           \* index of the `for api_url in self.free_apis` loop
    attempts,           \* the requests.get calls of the call, in order
    result,             \* the value the call returned
    last_resp,          \* what the last requests.get of the call brought
    lookup,             \* the rate lookup in progress, if any
    prev_call,          \* the call before: what its sources did, what it
                        \* returned, and the object its caller holds
    exchange_rates,     \* table exchange_rates: a set of rows
    rate_seq,           \* AUTOINCREMENT counter of exchange_rates
    conversion_history, \* table conversion_history, in rowid order
    now,                \* the system clock, in ticks
    last_put,           \* per (base, target): the clock reading of the last
                        \* cache_exchange_rates that held the pair
    saved,              \* the save_conversion calls made, in call order
    tie_break,          \* how this SQLite build orders rows of equal timestamp
    lastOp              \* the DatabaseManager call last made at this clock
                        \* reading, with what it returned

vars == <<api_key, pc, base_currency, free_idx, attempts, result, last_resp,
          lookup, prev_call, exchange_rates, rate_seq, conversion_history, now,
          last_put, saved, tie_break, lastOp>>

resolverVars == <<api_key, pc, base_currency, free_idx, attempts, result,
                  last_resp, lookup, prev_call>>
storeVars == <<exchange_rates, rate_seq, conversion_history, now, last_put,
               saved, tie_break, lastOp>>

(***************************************************************************)
(* Values                                                                  *)
(***************************************************************************)
Bases == {"USD", "EUR"}

\* Optional[str]: None, the empty string, a key.
NoKey == "<None>"
ApiKeys == {NoKey, "", "k1"}

\* `if self.api_key:` is Python truthiness: None and "" are false.
Truthy(k) == k # NoKey /\ k # ""

EmptyMap == [c \in {} |-> 0]

\* Rate mappings a response may carry.
RateMaps == {EmptyMap, [USD |-> 100], [EUR |-> 85], [USD |-> 100, EUR |-> 85]}

\* A JSON value found under a field: an object (a mapping) or null.
Absent == [t |-> "absent"]
JsonNull == [t |-> "null"]
MapVal(m) == [t |-> "map", m |-> m]
FieldVals == {JsonNull} \cup {MapVal(m) : m \in RateMaps}

\* What one requests.get can bring: a network failure (the call raises), a
\* response with a status, whose body is no JSON, JSON that is no object, or
\* an object with any of the fields the code reads.
Statuses == {200, 404, 500}
Objects == [kind : {"object"}, status : {200},
            result : {"absent", "success", "error"},
            rates : FieldVals \cup {Absent},
            conversion_rates : FieldVals \cup {Absent}]
Responses ==
    {[kind |-> "network"]}
    \cup {[kind |-> "status", status |-> s] : s \in Statuses \ {200}}
    \cup {[kind |-> "notjson", status |-> 200],
          [kind |-> "nonobject", status |-> 200]}
    \cup Objects

\* No requests.get made yet in the call.
NoResponse == [kind |-> "none"]

\* No lookup in progress; no call before this one.
NoLookup == [active |-> FALSE]
NoCall == [made |-> FALSE]

\* The outcome of one fetch: a returned value or a raised exception.
Returned(v) == [ok |-> TRUE, val |-> v, err |-> "none"]
Raised(e) == [ok |-> FALSE, val |-> Absent, err |-> e]

(***************************************************************************)
(* CurrencyAPI                                                             *)
(***************************************************************************)
free_apis == <<"https://open.er-api.com/v6/latest/",
               "https://api.exchangerate-api.com/v4/latest/">>

premium_api == "https://v6.exchangerate-api.com/v6/"

\* response.raise_for_status(): raises for 4xx and 5xx.
raise_for_status(resp) == resp.status >= 400

fetch_premium_rates(resp) ==
    IF resp.kind = "network" THEN Raised("network")
    ELSE IF raise_for_status(resp) THEN Raised("http")
    ELSE IF resp.kind = "notjson" THEN Raised("malformed")
    ELSE IF resp.kind = "nonobject" THEN Raised("malformed")
    ELSE IF resp.result = "success"
         THEN IF resp.conversion_rates = Absent
              THEN Raised("malformed")
              ELSE Returned(resp.conversion_rates)
         ELSE Raised("apierror")

\* A free fetch that looks for "conversion_rates" before "rates".
fetch_free_rates_conv_first(resp) ==
    IF resp.kind = "network" THEN Raised("network")
    ELSE IF raise_for_status(resp) THEN Raised("http")
    ELSE IF resp.kind = "notjson" THEN Raised("malformed")
    ELSE IF resp.kind = "nonobject" THEN Raised("malformed")
    ELSE IF resp.conversion_rates # Absent THEN Returned(resp.conversion_rates)
    ELSE IF resp.rates # Absent
         THEN Returned(resp.rates)
         ELSE Raised("malformed")

fetch_free_rates(resp) ==
    IF resp.kind = "network" THEN Raised("network")
    ELSE IF raise_for_status(resp) THEN Raised("http")
    ELSE IF resp.kind = "notjson" THEN Raised("malformed")
    ELSE IF resp.kind = "nonobject" THEN Raised("malformed")
    ELSE IF resp.rates # Absent THEN Returned(resp.rates)
    ELSE IF resp.conversion_rates # Absent
         THEN Returned(resp.conversion_rates)
         ELSE Raised("malformed")

get_fallback_rates_short ==
    MapVal([USD |-> 100, EUR |-> 85, GBP |-> 73, JPY |-> 11000,
            AUD |-> 135, CAD |-> 125, CHF |-> 92, CNY |-> 645,
            ZAR |-> 1550, INR |-> 7450, BRL |-> 520, RUB |-> 7350,
            KRW |-> 118000, SGD |-> 135, HKD |-> 780, MXN |-> 2050,
            SEK |-> 860, NOK |-> 890, DKK |-> 640, PLN |-> 390,
            TRY |-> 850, CZK |-> 2200, HUF |-> 30000])

\* The dict literal of _get_fallback_rates.
FallbackTable ==
    [USD |-> 100, EUR |-> 85, GBP |-> 73, JPY |-> 11000,
     AUD |-> 135, CAD |-> 125, CHF |-> 92, CNY |-> 645,
     ZAR |-> 1550, INR |-> 7450, BRL |-> 520, RUB |-> 7350,
     KRW |-> 118000, SGD |-> 135, HKD |-> 780, MXN |-> 2050,
     SEK |-> 860, NOK |-> 890, DKK |-> 640, PLN |-> 390,
     TRY |-> 850, CZK |-> 2200, HUF |-> 30000, RON |-> 420]

\* A fallback that hands out one dict object again and again: the object a
\* caller still holds from the call before.
get_fallback_rates_shared ==
    IF prev_call.made /\ prev_call.fallback
    THEN prev_call.held
    ELSE MapVal(FallbackTable)

\* _get_fallback_rates evaluates the literal: a new dict at every call.
get_fallback_rates == MapVal(FallbackTable)

\* A handler that catches connection errors only.
ExceptException_network_only(e) == e = "network"

\* `except Exception`: every error a fetch raises is an Exception.
ExceptException(e) == e \in {"network", "http", "malformed", "apierror"}

Attempt(src, url, out) ==
    [src |-> src, url |-> url, ok |-> out.ok, err |-> out.err, val |-> out.val]

\* What the sources of the call did, without the kinds of the errors.
Outcomes == [i \in 1..Len(attempts) |-> [ok |-> attempts[i].ok, val |-> attempts[i].val]]

\* A call that tries the premium source whether or not a key is set.
Call_always_premium(b) ==
    /\ pc = "idle"
    /\ base_currency' = b
    /\ pc' = "premium"
    /\ free_idx' = 1
    /\ attempts' = <<>>
    /\ result' = Absent
    /\ last_resp' = NoResponse
    /\ UNCHANGED <<api_key, lookup, prev_call, storeVars>>

\* get_exchange_rates is called.
Call(b) ==
    /\ pc = "idle"
    /\ base_currency' = b
    /\ pc' = IF Truthy(api_key) THEN "premium" ELSE "free"
    /\ free_idx' = 1
    /\ attempts' = <<>>
    /\ result' = Absent
    /\ last_resp' = NoResponse
    /\ UNCHANGED <<api_key, lookup, prev_call, storeVars>>

\* The premium attempt, inside its try.
TryPremium ==
    /\ pc = "premium"
    /\ \E resp \in Responses :
         LET out == fetch_premium_rates(resp) IN
         /\ last_resp' = resp
         /\ attempts' = Append(attempts, Attempt("premium", premium_api, out))
         /\ IF out.ok
            THEN result' = out.val /\ pc' = "done"
            ELSE IF ExceptException(out.err)
                 THEN result' = result /\ pc' = "free"
                 ELSE result' = result /\ pc' = "raised"
    /\ UNCHANGED <<api_key, base_currency, free_idx, lookup, prev_call, storeVars>>

\* A loop that asks a failed free source again.
TryFree_retrying ==
    /\ pc = "free"
    /\ free_idx <= Len(free_apis)
    /\ \E resp \in Responses :
         LET out == fetch_free_rates(resp) IN
         /\ last_resp' = resp
         /\ attempts' = Append(attempts, Attempt("free", free_apis[free_idx], out))
         /\ IF out.ok
            THEN result' = out.val /\ pc' = "done"
            ELSE result' = result /\ pc' = "free"
         /\ free_idx' = free_idx
    /\ UNCHANGED <<api_key, base_currency, lookup, prev_call, storeVars>>

\* One turn of the loop over free_apis, inside its try.
TryFree ==
    /\ pc = "free"
    /\ free_idx <= Len(free_apis)
    /\ \E resp \in Responses :
         LET out == fetch_free_rates(resp) IN
         /\ last_resp' = resp
         /\ attempts' = Append(attempts, Attempt("free", free_apis[free_idx], out))
         /\ IF out.ok
            THEN result' = out.val /\ pc' = "done" /\ free_idx' = free_idx
            ELSE IF ExceptException(out.err)
                 THEN result' = result /\ pc' = "free" /\ free_idx' = free_idx + 1
                 ELSE result' = result /\ pc' = "raised" /\ free_idx' = free_idx
    /\ UNCHANGED <<api_key, base_currency, lookup, prev_call, storeVars>>

\* The loop is exhausted: the fallback table is returned.
UseFallback ==
    /\ pc = "free"
    /\ free_idx > Len(free_apis)
    /\ result' = get_fallback_rates
    /\ pc' = "done"
    /\ UNCHANGED <<api_key, base_currency, free_idx, attempts, last_resp, lookup,
                   prev_call, storeVars>>

\* The caller has the value; the object is ready for the next call.
Return ==
    /\ pc = "done"
    /\ pc' = "idle"
    /\ lookup = NoLookup
    /\ UNCHANGED <<api_key, base_currency, free_idx, attempts, result, last_resp,
                   lookup, prev_call, storeVars>>

\* The caller has the value and keeps the object; the call is remembered
\* for the next one to be compared with.
ReturnToCaller ==
    /\ pc = "done"
    /\ lookup = NoLookup
    /\ pc' = "idle"
    /\ prev_call' = [made |-> TRUE, outcomes |-> Outcomes, result |-> result,
                     held |-> result,
                     fallback |-> \A i \in 1..Len(attempts) : ~attempts[i].ok]
    /\ UNCHANGED <<api_key, base_currency, free_idx, attempts, result, last_resp,
                   lookup, storeVars>>

\* The caller writes into the dict it was given: every rate becomes 0.
CallerMutates ==
    /\ pc = "idle"
    /\ prev_call.made
    /\ prev_call.held.t = "map"
    /\ prev_call' = [prev_call EXCEPT
                        !.held = MapVal([c \in DOMAIN prev_call.held.m |-> 0])]
    /\ UNCHANGED <<api_key, pc, base_currency, free_idx, attempts, result,
                   last_resp, lookup, storeVars>>

get_exchange_rates ==
    \/ \E b \in Bases : Call(b)
    \/ TryPremium
    \/ TryFree
    \/ UseFallback
    \/ Return

(***************************************************************************)
(* The clock and the timestamps SQLite stores                              *)
(***************************************************************************)
\* Ticks of the clock in one second; the scale is compressed, one hour is
\* OneHour ticks.
SecondTicks == 2
OneHour == 2

\* The clock reading at construction: late enough for now - OneHour to be a
\* time of the model, and the last tick of a second.
FirstReading == OneHour + 1

\* The last clock reading of the model.
MaxTime == 6

\* sqlite3's default adapter stores a datetime as isoformat(" ") text,
\* which leaves the fraction out when the microseconds are 0: the text is
\* <<seconds>> or <<seconds, fraction>>.
adapt_datetime(t) ==
    IF t % SecondTicks = 0
    THEN <<t \div SecondTicks>>
    ELSE <<t \div SecondTicks, t % SecondTicks>>

\* CURRENT_TIMESTAMP: the clock in whole seconds.
CURRENT_TIMESTAMP == <<now \div SecondTicks>>

\* SQLite compares TEXT byte by byte; a proper prefix is the smaller.
TextLess(a, b) ==
    \/ a[1] < b[1]
    \/ /\ a[1] = b[1]
       /\ \/ Len(a) < Len(b)
          \/ Len(a) = 2 /\ Len(b) = 2 /\ a[2] < b[2]

\* The clock reading a stored text stands for.
TextTime(txt) == txt[1] * SecondTicks + (IF Len(txt) = 2 THEN txt[2] ELSE 0)

NoOp == [op |-> "none"]

\* datetime.now() is the wall clock: it does not go back here, and two
\* readings may be equal.
Tick ==
    /\ now < MaxTime
    /\ now' = now + 1
    /\ lastOp' = NoOp
    /\ UNCHANGED <<resolverVars, exchange_rates, rate_seq, conversion_history,
                   last_put, saved, tie_break>>

(***************************************************************************)
(* DatabaseManager: the rate cache                                         *)
(***************************************************************************)
Targets == {"EUR", "GBP"}
\* Rates passed to cache_exchange_rates: an ordinary rate and zero; the code
\* binds whatever number the dict holds.
CacheRates == {0, 85}

\* The most rows one rates dict holds, and the most rows ever inserted.
MaxDict == 2
MaxRateId == 2

\* A rates dict, as rates.items() yields it: pairs with distinct keys, here
\* with "EUR" before "GBP".
KeyRank(c) == IF c = "EUR" THEN 1 ELSE 2
RateDicts ==
    {d \in UNION {[1..n -> Targets \X CacheRates] : n \in 0..MaxDict} :
        \A i, j \in 1..Len(d) : i < j => KeyRank(d[i][1]) < KeyRank(d[j][1])}

DictKeys(d) == {d[i][1] : i \in 1..Len(d)}

\* last_put before any call held the pair; afterwards <<clock reading>>.
Never == <<>>

\* A prune that deletes nothing.
DeleteOld_nothing(base, one_hour_ago) == exchange_rates

\* A prune that deletes every row of the base, whatever its age.
DeleteOld_whole_base(base, one_hour_ago) ==
    {r \in exchange_rates : r.base_currency # base}

\* DELETE FROM exchange_rates WHERE base_currency = ? AND timestamp < ?
DeleteOld(base, one_hour_ago) ==
    {r \in exchange_rates :
        ~(r.base_currency = base /\ TextLess(r.timestamp, adapt_datetime(one_hour_ago)))}

\* The rows the loop over rates.items() inserts.
InsertedRows(base, rates, timestamp) ==
    {[id |-> rate_seq + i,
      base_currency |-> base,
      target_currency |-> rates[i][1],
      rate |-> rates[i][2],
      timestamp |-> adapt_datetime(timestamp)] : i \in 1..Len(rates)}

\* A connection that commits each statement as it is executed.
ConnExit_autocommit(working, failed) == working

\* `with sqlite3.connect(self.db_path) as conn`: leaving the block commits the
\* transaction, and rolls it back when an exception leaves the block.
ConnExit(working, failed) ==
    IF failed THEN [rows |-> exchange_rates, seq |-> rate_seq] ELSE working

\* The table inside the transaction with `done` statements behind: the
\* DELETE first, then one INSERT per item of rates.  A statement that fails
\* leaves no change of its own.
Working(base, rates, timestamp, done) ==
    IF done = 0
    THEN [rows |-> exchange_rates, seq |-> rate_seq]
    ELSE [rows |-> DeleteOld(base, timestamp - OneHour)
                     \cup {r \in InsertedRows(base, rates, timestamp) :
                              r.id < rate_seq + done},
          seq |-> rate_seq + done - 1]

\* cache_exchange_rates on the tables, every statement succeeding.
CacheWrite(base, rates) ==
    LET timestamp == now
        db == ConnExit(Working(base, rates, timestamp, Len(rates) + 1), FALSE)
    IN /\ exchange_rates' = db.rows
       /\ rate_seq' = db.seq
       /\ last_put' = [p \in Bases \X Targets |->
                         IF p[1] = base /\ p[2] \in DictKeys(rates)
                         THEN <<timestamp>> ELSE last_put[p]]
       /\ lastOp' = [op |-> "put", base |-> base, rates |-> rates,
                     first_id |-> rate_seq + 1]
       /\ UNCHANGED <<conversion_history, saved, tie_break, now>>

\* cache_exchange_rates with a storage error after `done` statements: in the
\* DELETE (done = 0), in an INSERT, or in conn.commit() (done = Len(rates) + 1).
\* Nothing catches it.
CacheWriteFails(base, rates, done) ==
    LET db == ConnExit(Working(base, rates, now, done), TRUE)
    IN /\ exchange_rates' = db.rows
       /\ rate_seq' = db.seq
       /\ lastOp' = [op |-> "put_error", base |-> base, done |-> done]
       /\ UNCHANGED <<last_put, conversion_history, saved, tie_break, now>>

cache_exchange_rates(base, rates) ==
    /\ rate_seq + Len(rates) <= MaxRateId
    /\ CacheWrite(base, rates)
    /\ UNCHANGED resolverVars

cache_exchange_rates_fails(base, rates, done) ==
    /\ CacheWriteFails(base, rates, done)
    /\ UNCHANGED resolverVars

\* The rows of the pair, whatever their age.
SelectFresh_any_age(from_currency, to_currency, one_hour_ago) ==
    {r \in exchange_rates :
        /\ r.base_currency = from_currency
        /\ r.target_currency = to_currency}

\* A select that takes the row of age exactly one hour too.
SelectFresh_inclusive(from_currency, to_currency, one_hour_ago) ==
    {r \in exchange_rates :
        /\ r.base_currency = from_currency
        /\ r.target_currency = to_currency
        /\ ~TextLess(r.timestamp, adapt_datetime(one_hour_ago))}

\* WHERE base_currency = ? AND target_currency = ? AND timestamp > ?
SelectFresh(from_currency, to_currency, one_hour_ago) ==
    {r \in exchange_rates :
        /\ r.base_currency = from_currency
        /\ r.target_currency = to_currency
        /\ TextLess(adapt_datetime(one_hour_ago), r.timestamp)}

\* SQL leaves the order of rows of equal sort key open; a build settles it
\* one way, the same for every query: here by rowid, one way or the other.
TieBreaks == {"rowid_asc", "rowid_desc"}
TieBefore(id1, id2) == IF tie_break = "rowid_asc" THEN id1 < id2 ELSE id1 > id2

\* ORDER BY timestamp ASC LIMIT 1.
OrderAscLimit1(rows) ==
    {r \in rows : \A q \in rows :
        /\ ~TextLess(q.timestamp, r.timestamp)
        /\ (q.timestamp = r.timestamp /\ q.id # r.id) => TieBefore(r.id, q.id)}

\* ORDER BY timestamp DESC LIMIT 1: the row no other row is after, the first
\* of those of equal timestamp.
OrderDescLimit1(rows) ==
    {r \in rows : \A q \in rows :
        /\ ~TextLess(r.timestamp, q.timestamp)
        /\ (q.timestamp = r.timestamp /\ q.id # r.id) => TieBefore(r.id, q.id)}

Hit(rate) == [hit |-> TRUE, rate |-> rate]
Miss == [hit |-> FALSE, rate |-> 0]

\* The values get_cached_rate may return at clock reading t.
CachedRate(from_currency, to_currency, t) ==
    LET rows == SelectFresh(from_currency, to_currency, t - OneHour)
    IN IF rows = {} THEN {Miss} ELSE {Hit(r.rate) : r \in OrderDescLimit1(rows)}

\* A get that also deletes the rows of its base older than one hour.
get_cached_rate_purging(from_currency, to_currency) ==
    /\ \E res \in CachedRate(from_currency, to_currency, now) :
         lastOp' = [op |-> "get", from |-> from_currency, to |-> to_currency,
                    result |-> res]
    /\ exchange_rates' = DeleteOld(from_currency, now - OneHour)
    /\ UNCHANGED <<resolverVars, rate_seq, conversion_history,
                   last_put, saved, tie_break, now>>

get_cached_rate(from_currency, to_currency) ==
    /\ \E res \in CachedRate(from_currency, to_currency, now) :
         lastOp' = [op |-> "get", from |-> from_currency, to |-> to_currency,
                    result |-> res]
    /\ UNCHANGED <<resolverVars, exchange_rates, rate_seq, conversion_history,
                   last_put, saved, tie_break, now>>

(***************************************************************************)
(* DatabaseManager: the conversion history                                 *)
(***************************************************************************)
\* from_currency, to_currency, amount, converted_amount, rate
Conversions == {<<"USD", "EUR", 1, 85, 85>>, <<"USD", "EUR", 2, 170, 85>>}

\* The most conversions saved, and the largest limit asked for.
MaxHistory == 3
MaxLimit == 2

HistoryRow(c, timestamp) ==
    [from_currency |-> c[1], to_currency |-> c[2], amount |-> c[3],
     converted_amount |-> c[4], exchange_rate |-> c[5], timestamp |-> timestamp]

\* A save that skips a conversion the table already holds.
save_conversion_dedup(c) ==
    /\ Len(saved) < MaxHistory
    /\ conversion_history' =
          IF \E i \in 1..Len(conversion_history) :
                conversion_history[i] = HistoryRow(c, CURRENT_TIMESTAMP)
          THEN conversion_history
          ELSE Append(conversion_history, HistoryRow(c, CURRENT_TIMESTAMP))
    /\ saved' = Append(saved, <<c, CURRENT_TIMESTAMP>>)
    /\ lastOp' = [op |-> "save", conversion |-> c]
    /\ UNCHANGED <<resolverVars, exchange_rates, rate_seq, last_put, tie_break, now>>

save_conversion(c) ==
    /\ Len(saved) < MaxHistory
    /\ conversion_history' =
          Append(conversion_history, HistoryRow(c, CURRENT_TIMESTAMP))
    /\ saved' = Append(saved, <<c, CURRENT_TIMESTAMP>>)
    /\ lastOp' = [op |-> "save", conversion |-> c]
    /\ UNCHANGED <<resolverVars, exchange_rates, rate_seq, last_put, tie_break, now>>

\* Row i of conversion_history comes before row j under ORDER BY timestamp
\* DESC.
RowBefore(i, j) ==
    \/ TextLess(conversion_history[j].timestamp, conversion_history[i].timestamp)
    \/ /\ conversion_history[j].timestamp = conversion_history[i].timestamp
       /\ TieBefore(i, j)

\* get_conversion_history(self, limit: int = 20)
DefaultLimit == 20

\* LIMIT n: a negative n is no limit.
LimitCount(limit, n) == IF limit < 0 \/ limit > n THEN n ELSE limit

\* ORDER BY timestamp DESC LIMIT ?: the row numbers of the result:
\* timestamps do not increase along it, rows of equal timestamp are in the
\* build's order, and no row left out comes before a row of it.
OrderDescLimit(limit) ==
    LET n == Len(conversion_history)
        k == LimitCount(limit, n)
    IN {s \in [1..k -> 1..n] :
          /\ \A i, j \in 1..k : i # j => s[i] # s[j]
          /\ \A i, j \in 1..k : i < j => RowBefore(s[i], s[j])
          /\ \A i \in 1..k : \A m \in 1..n :
                (\A j \in 1..k : s[j] # m) => RowBefore(s[i], m)}

get_conversion_history(limit) ==
    /\ \E s \in OrderDescLimit(limit) :
         lastOp' = [op |-> "recent", limit |-> limit,
                    records |-> [i \in 1..Len(s) |-> conversion_history[s[i]]]]
    /\ UNCHANGED <<resolverVars, exchange_rates, rate_seq, conversion_history,
                   last_put, saved, tie_break, now>>

(***************************************************************************)
(* The rate lookup path: the caller of CurrencyAPI and DatabaseManager.    *)
(* Its class is not part of src/sample_project.py (lines 215-216); the     *)
(* path is the one the specification gives: the cache is asked first, on a *)
(* miss the resolver is called, and what it returns is written back.       *)
(***************************************************************************)
\* The most rows the table may hold when a lookup starts to resolve.
MaxLookupRows == 1

\* rates.items() of a mapping, as the list cache_exchange_rates iterates.
RECURSIVE ItemsOf(_, _)
ItemsOf(m, keys) ==
    IF keys = {} THEN <<>>
    ELSE LET k == CHOOSE c \in keys : TRUE
         IN <<<<k, m[k]>>>> \o ItemsOf(m, keys \ {k})

\* The lookup asks the cache; a hit is the answer, a miss calls
\* get_exchange_rates(from).
LookupStart(from, to) ==
    /\ pc = "idle"
    /\ ~lookup.active
    /\ \E res \in CachedRate(from, to, now) :
         /\ lastOp' = [op |-> "get", from |-> from, to |-> to, result |-> res]
         /\ IF res.hit
            THEN UNCHANGED <<pc, base_currency, free_idx, attempts, result,
                             last_resp, lookup>>
            ELSE /\ rate_seq < MaxLookupRows
                 /\ lookup' = [active |-> TRUE, from |-> from, to |-> to]
                 /\ base_currency' = from
                 /\ pc' = IF Truthy(api_key) THEN "premium" ELSE "free"
                 /\ free_idx' = 1
                 /\ attempts' = <<>>
                 /\ result' = Absent
                 /\ last_resp' = NoResponse
    /\ UNCHANGED <<api_key, prev_call, exchange_rates, rate_seq,
                   conversion_history, last_put, saved, tie_break, now>>

\* The resolver has returned: its value goes to cache_exchange_rates.  A
\* value that is no mapping has no items(): the call raises after its DELETE.
WriteBack ==
    /\ pc = "done"
    /\ lookup.active
    /\ pc' = "idle"
    /\ IF result.t = "map"
       THEN CacheWrite(lookup.from, ItemsOf(result.m, DOMAIN result.m))
       ELSE CacheWriteFails(lookup.from, <<>>, 1)
    /\ lookup' = [active |-> FALSE, from |-> lookup.from, to |-> lookup.to,
                  at |-> now]
    /\ UNCHANGED <<api_key, base_currency, free_idx, attempts, result, last_resp,
                   prev_call>>

Lookup == \E from \in Bases : \E to \in Targets : LookupStart(from, to)

Put == \E base \in Bases : \E rates \in RateDicts : cache_exchange_rates(base, rates)
PutFails ==
    \E base \in Bases : \E rates \in RateDicts : \E done \in 0..(Len(rates) + 1) :
        cache_exchange_rates_fails(base, rates, done)
Get == \E f \in Bases : \E t \in Targets : get_cached_rate(f, t)
Save == \E c \in Conversions : save_conversion(c)
Recent == \E limit \in -1..MaxLimit : get_conversion_history(limit)

Init ==
    /\ api_key \in ApiKeys
    /\ pc = "idle"
    /\ base_currency = "USD"
    /\ free_idx = 1
    /\ attempts = <<>>
    /\ result = Absent
    /\ last_resp = NoResponse
    /\ lookup = NoLookup
    /\ prev_call = NoCall
    /\ tie_break \in TieBreaks
    /\ exchange_rates = {}
    /\ rate_seq = 0
    /\ conversion_history = <<>>
    /\ last_put = [p \in Bases \X Targets |-> Never]
    /\ saved = <<>>
    /\ now = FirstReading
    /\ lastOp = NoOp

\* DatabaseManager next to a CurrencyAPI built with the default api_key=None.
InitStore == Init /\ api_key = NoKey

NextResolver == get_exchange_rates
NextCache == Tick \/ Put \/ Get
NextHistory == Tick \/ Save \/ Recent

\* Both tables together, with fewer rows in each and a shorter run of the
\* clock.
MaxStoreRows == 1
MaxStoreHistory == 2
MaxStoreTime == FirstReading + 1
StoreTick == Tick /\ now' <= MaxStoreTime
StorePut == Put /\ rate_seq' <= MaxStoreRows
StoreSave == Save /\ Len(conversion_history') <= MaxStoreHistory
NextStore == StoreTick \/ StorePut \/ Get \/ StoreSave \/ Recent

\* The two read operations over both tables, with cache rows of one base
\* old enough to be stale and a short history.
MaxReadsHistory == 1
ReadsPut ==
    \E t \in Targets : \E x \in CacheRates : cache_exchange_rates("USD", <<<<t, x>>>>)
ReadsGet == \E t \in Targets : get_cached_rate("USD", t)
ReadsSave == Save /\ Len(conversion_history') <= MaxReadsHistory
ReadsRecent == get_conversion_history(DefaultLimit)
NextReads == Tick \/ ReadsPut \/ ReadsGet \/ ReadsSave \/ ReadsRecent

\* get_exchange_rates calls one after the other, the caller free to write
\* into what it was given.
NextCalls ==
    \/ \E b \in Bases : Call(b)
    \/ TryPremium
    \/ TryFree
    \/ UseFallback
    \/ ReturnToCaller
    \/ CallerMutates

\* The rate lookup path.
NextLookup == StoreTick \/ Lookup \/ TryPremium \/ TryFree \/ UseFallback \/ WriteBack

\* The rate cache with storage errors in cache_exchange_rates.
NextFaults == Tick \/ StorePut \/ PutFails

SpecResolver == Init /\ [][NextResolver]_vars
SpecCache == InitStore /\ [][NextCache]_vars
SpecHistory == InitStore /\ [][NextHistory]_vars
SpecStore == InitStore /\ [][NextStore]_vars
SpecFaults == InitStore /\ [][NextFaults]_vars
SpecReads == InitStore /\ [][NextReads]_vars
SpecCalls == Init /\ [][NextCalls]_vars
SpecLookup == Init /\ [][NextLookup]_vars

(***************************************************************************)
(* Claims about CurrencyAPI.get_exchange_rates, under SpecResolver         *)
(***************************************************************************)
AllFailed == \A i \in 1..Len(attempts) : ~attempts[i].ok

\* No exception leaves get_exchange_rates: both try blocks catch every
\* error a fetch raises.
NoErrorSurfaced == pc # "raised"

\* C1: get_exchange_rates never fails: whatever the base currency, the key
\* and the outcomes of the sources, no error reaches the caller and the
\* returned value is a mapping.
C1_NeverFailsReturnsMapping ==
    /\ pc # "raised"
    /\ pc = "done" => result.t = "map"

\* C2: when the premium source (if attempted) and every free source failed,
\* the returned mapping is the static fallback table: its 24 currency codes
\* with their fixed rates, whatever the base currency.
FallbackCodes ==
    {"USD", "EUR", "GBP", "JPY", "AUD", "CAD", "CHF", "CNY", "ZAR", "INR",
     "BRL", "RUB", "KRW", "SGD", "HKD", "MXN", "SEK", "NOK", "DKK", "PLN",
     "TRY", "CZK", "HUF", "RON"}

C2_AllFailedGivesFallback ==
    (pc = "done" /\ AllFailed) =>
        /\ result.t = "map"
        /\ DOMAIN result.m = FallbackCodes
        /\ Cardinality(DOMAIN result.m) = 24
        /\ result = get_fallback_rates
        /\ result.m["USD"] = 100 /\ result.m["EUR"] = 85 /\ result.m["RON"] = 420

C2_Witness ==
    /\ pc = "done"
    /\ base_currency = "EUR"
    /\ Len(attempts) = 3
    /\ AllFailed
    /\ result = get_fallback_rates

\* C3: the mapping get_exchange_rates returns is non-empty and has the key
\* "USD", whichever source produced it and whatever mapping the response
\* carried.
C3_ResultHasUSD ==
    (pc = "done" /\ result.t = "map") =>
        /\ result.m # EmptyMap
        /\ "USD" \in DOMAIN result.m

\* C4: the sources are tried in the order premium (only with a key), first
\* free source, second free source, fallback; a source is tried only after
\* every earlier one failed, none is tried after a success, and the value
\* returned is that of the first source that succeeded.
PriorityOrder ==
    (IF Truthy(api_key) THEN <<premium_api>> ELSE <<>>) \o free_apis

C4_PriorityOrder ==
    /\ Len(attempts) <= Len(PriorityOrder)
    /\ \A i \in 1..Len(attempts) : attempts[i].url = PriorityOrder[i]
    /\ \A i \in 1..Len(attempts) : i < Len(attempts) => ~attempts[i].ok
    /\ api_key = NoKey => \A i \in 1..Len(attempts) : attempts[i].src # "premium"
    /\ (pc \in {"premium", "free"} /\ Len(attempts) > 0) => AllFailed
    /\ pc = "done" =>
         \/ /\ Len(attempts) > 0
            /\ attempts[Len(attempts)].ok
            /\ result = attempts[Len(attempts)].val
         \/ /\ AllFailed
            /\ Len(attempts) = Len(PriorityOrder)
            /\ result = get_fallback_rates

C4_Witness ==
    /\ pc = "done"
    /\ Len(attempts) = 3
    /\ attempts[1].src = "premium" /\ ~attempts[1].ok
    /\ ~attempts[2].ok
    /\ attempts[3].ok
    /\ result = attempts[3].val

\* C13: inside one get_exchange_rates call no source is attempted twice;
\* when a source succeeds every source before it was attempted once and none
\* after it; when all fail every configured source was attempted once; so a
\* call makes at most 1 + (number of free sources) attempts.
TimesAttempted(url) == Cardinality({i \in 1..Len(attempts) : attempts[i].url = url})

PlaceOf(url) == CHOOSE k \in 1..Len(PriorityOrder) : PriorityOrder[k] = url

C13_NoRetries ==
    /\ \A k \in 1..Len(PriorityOrder) : TimesAttempted(PriorityOrder[k]) <= 1
    /\ Len(attempts) <= 1 + Len(free_apis)
    /\ \A i \in 1..Len(attempts) :
          attempts[i].ok =>
            \A k \in 1..Len(PriorityOrder) :
               TimesAttempted(PriorityOrder[k]) =
                  IF k <= PlaceOf(attempts[i].url) THEN 1 ELSE 0
    /\ (pc = "done" /\ AllFailed) =>
          \A k \in 1..Len(PriorityOrder) : TimesAttempted(PriorityOrder[k]) = 1

C13_Witness ==
    /\ pc = "done"
    /\ Truthy(api_key)
    /\ Len(attempts) = 2
    /\ ~attempts[1].ok
    /\ attempts[2].ok
    /\ TimesAttempted(free_apis[2]) = 0

\* C14: the four kinds of error (network failure, HTTP status, malformed
\* response, error reported by the API) are handled alike: each is caught,
\* the source is left and the next one tried, and the value returned is
\* decided by which attempts failed and by the payload of the one that
\* succeeded, whatever the kinds of the failures.
ErrorKinds == {"network", "http", "malformed", "apierror"}

ValueFrom(outcomes) ==
    IF Len(outcomes) > 0 /\ outcomes[Len(outcomes)].ok
    THEN outcomes[Len(outcomes)].val
    ELSE get_fallback_rates

FailedFree == {i \in 1..Len(attempts) : attempts[i].src = "free" /\ ~attempts[i].ok}

C14_ErrorKindsAlike ==
    /\ pc # "raised"
    /\ \A i \in 1..Len(attempts) : ~attempts[i].ok => attempts[i].err \in ErrorKinds
    /\ (pc = "free" /\ Len(attempts) > 0) =>
          /\ ~attempts[Len(attempts)].ok
          /\ free_idx = Cardinality(FailedFree) + 1
    /\ pc = "done" => result = ValueFrom(Outcomes)

C14_Witness ==
    /\ pc = "done"
    /\ Len(attempts) = 3
    /\ attempts[1].err = "apierror"
    /\ attempts[2].err = "http"
    /\ attempts[3].ok
    /\ result = attempts[3].val

\* C15: a free source's 2xx response is accepted exactly when it has a
\* "rates" or a "conversion_rates" field, "rates" first; a premium 2xx
\* response exactly when its "result" is "success" and it has
\* "conversion_rates"; any other shape is a failure and the next source is
\* tried; the value of the accepted field is returned as it is.
Is2xx(resp) == resp.kind \in {"notjson", "nonobject", "object"} /\ resp.status = 200
HasField(resp, f) == resp.kind = "object" /\ resp[f] # Absent

C15_AcceptanceRules ==
    (Len(attempts) > 0 /\ Is2xx(last_resp)) =>
        LET a == attempts[Len(attempts)]
            r == last_resp
        IN /\ a.src = "free" =>
                /\ a.ok <=> (HasField(r, "rates") \/ HasField(r, "conversion_rates"))
                /\ a.ok => a.val = IF HasField(r, "rates") THEN r.rates
                                                          ELSE r.conversion_rates
           /\ a.src = "premium" =>
                /\ a.ok <=> (/\ r.kind = "object"
                             /\ r.result = "success"
                             /\ HasField(r, "conversion_rates"))
                /\ a.ok => a.val = r.conversion_rates
           /\ (a.ok /\ pc = "done") => result = a.val
           /\ ~a.ok => \/ pc = "free" /\ free_idx = Cardinality(FailedFree) + 1
                       \/ pc \in {"done", "idle"} /\ AllFailed

C15_Witness ==
    /\ pc = "done"
    /\ Len(attempts) > 0
    /\ attempts[Len(attempts)].src = "free"
    /\ HasField(last_resp, "rates")
    /\ HasField(last_resp, "conversion_rates")
    /\ last_resp.rates # last_resp.conversion_rates
    /\ result = last_resp.rates

\* C20, under SpecCalls: get_exchange_rates keeps no state between calls.
\* No step of a call changes api_key (the list free_apis and the fallback
\* literal are constants of the class); a call whose sources do what the
\* sources of the call before did returns an equal value; and when the
\* caller has written into the fallback dict it was given, a later call in
\* which all sources fail still returns the table as the literal gives it.
SameAsBefore ==
    (pc = "done" /\ prev_call.made /\ prev_call.outcomes = Outcomes)
        => result = prev_call.result

FallbackUntouched ==
    (pc = "done" /\ AllFailed) => result = MapVal(FallbackTable)

C20_StatelessResolve ==
    [][/\ api_key' = api_key
       /\ SameAsBefore'
       /\ FallbackUntouched']_vars

C20_Witness ==
    /\ pc = "done"
    /\ AllFailed
    /\ prev_call.made
    /\ prev_call.fallback
    /\ prev_call.held # prev_call.result
    /\ result = prev_call.result

(***************************************************************************)
(* Claims about the rate cache, under SpecCache.  lastOp is reset by Tick, *)
(* so while lastOp names a call, now is the clock reading of that call.    *)
(***************************************************************************)
Age(r) == now - TextTime(r.timestamp)

PairRows(from_currency, to_currency) ==
    {r \in exchange_rates :
        r.base_currency = from_currency /\ r.target_currency = to_currency}

\* C5: get_cached_rate returns a rate only if a cache_exchange_rates for the
\* base that held the target was made less than one hour before; once more
\* than one hour has passed since the last such call it reports a miss,
\* though the stale row is still stored; inside the hour it returns a rate.
C5_FreshnessWindow ==
    lastOp.op = "get" =>
        LET lp == last_put[<<lastOp.from, lastOp.to>>] IN
        /\ lastOp.result.hit => (lp # Never /\ now - lp[1] < OneHour)
        /\ (lp # Never /\ now - lp[1] > OneHour) => ~lastOp.result.hit
        /\ (lp # Never /\ now - lp[1] < OneHour) => lastOp.result.hit

C5_Witness ==
    /\ lastOp.op = "get"
    /\ ~lastOp.result.hit
    /\ last_put[<<lastOp.from, lastOp.to>>] # Never
    /\ \E r \in PairRows(lastOp.from, lastOp.to) : Age(r) > OneHour

\* C6: cache_exchange_rates(base, rates) followed at once by
\* get_cached_rate(base, target), target a key of rates, returns
\* rates[target], whatever the table held before.
DictRate(d, key) == d[CHOOSE i \in 1..Len(d) : d[i][1] = key][2]

C6_PutThenGet ==
    [][(/\ lastOp.op = "put"
        /\ lastOp'.op = "get"
        /\ lastOp'.from = lastOp.base
        /\ lastOp'.to \in DictKeys(lastOp.rates))
       => lastOp'.result = Hit(DictRate(lastOp.rates, lastOp'.to))]_vars

\* What does hold: the rate just stored is returned when every other row of
\* the pair has an earlier timestamp.
C6_PutThenGetWithoutTies ==
    [][(/\ lastOp.op = "put"
        /\ lastOp'.op = "get"
        /\ lastOp'.from = lastOp.base
        /\ lastOp'.to \in DictKeys(lastOp.rates)
        /\ \A r \in PairRows(lastOp'.from, lastOp'.to) :
              r.id < lastOp.first_id => Age(r) > 0)
       => lastOp'.result = Hit(DictRate(lastOp.rates, lastOp'.to))]_vars

\* C7: get_cached_rate returns the rate of a row of the pair that is inside
\* the freshness window and has the greatest timestamp of the rows inside
\* it, and a miss exactly when no row of the pair is inside the window.
FreshRows(from_currency, to_currency) ==
    {r \in PairRows(from_currency, to_currency) : Age(r) < OneHour}

C7_MostRecentFreshRow ==
    lastOp.op = "get" =>
        LET F == FreshRows(lastOp.from, lastOp.to) IN
        /\ lastOp.result.hit <=> F # {}
        /\ lastOp.result.hit =>
              \E r \in F : /\ r.rate = lastOp.result.rate
                           /\ \A q \in F : Age(q) >= Age(r)

C7_Witness ==
    /\ lastOp.op = "get"
    /\ lastOp.result.hit
    /\ \E r, q \in FreshRows(lastOp.from, lastOp.to) :
          /\ Age(q) > Age(r)
          /\ q.rate # r.rate
          /\ lastOp.result.rate = r.rate

\* C8: after cache_exchange_rates(base, rates) at clock reading now, no row
\* of the base is older than now minus one hour, and the rows inserted by
\* the call are exactly one per key of rates, each with the base, the rate
\* of the key and timestamp now.
NewRows == {r \in exchange_rates : r.id >= lastOp.first_id}

C8_PutPrunesAndInserts ==
    lastOp.op = "put" =>
        /\ \A r \in exchange_rates :
              r.base_currency = lastOp.base => Age(r) <= OneHour
        /\ \A r \in exchange_rates : r.id <= rate_seq
        /\ Cardinality(NewRows) = Len(lastOp.rates)
        /\ \A i \in 1..Len(lastOp.rates) :
              /\ Cardinality({r \in NewRows :
                                r.target_currency = lastOp.rates[i][1]}) = 1
              /\ \A r \in NewRows :
                    r.target_currency = lastOp.rates[i][1] =>
                        /\ r.base_currency = lastOp.base
                        /\ r.rate = lastOp.rates[i][2]
                        /\ r.timestamp = adapt_datetime(now)
                        /\ Age(r) = 0

C8_Witness ==
    /\ lastOp.op = "put"
    /\ Len(lastOp.rates) = 1
    /\ lastOp.first_id = 2
    /\ Cardinality(exchange_rates) = 1

(***************************************************************************)
(* Claims about the conversion history                                     *)
(***************************************************************************)
Min(a, b) == IF a < b THEN a ELSE b

\* C9: get_conversion_history(n), n >= 0, returns at most n records: the
\* last min(n, number saved) records, in the reverse of the order of the
\* save_conversion calls.  (Checked under SpecHistory.)
C9_RecentIsReversedTail ==
    (lastOp.op = "recent" /\ lastOp.limit >= 0) =>
        LET n == Len(conversion_history)
            k == Min(lastOp.limit, n)
        IN /\ Len(lastOp.records) <= lastOp.limit
           /\ Len(lastOp.records) = k
           /\ \A i \in 1..k : lastOp.records[i] = conversion_history[n + 1 - i]

\* What does hold: at most n records come back, newest timestamps first.
C9_AtMostNNewestFirst ==
    (lastOp.op = "recent" /\ lastOp.limit >= 0) =>
        /\ Len(lastOp.records) = Min(lastOp.limit, Len(conversion_history))
        /\ \A i, j \in 1..Len(lastOp.records) :
              i < j => ~TextLess(lastOp.records[i].timestamp,
                                 lastOp.records[j].timestamp)

\* C10: the history is append-only: every save_conversion call appends one
\* record, identical conversions included, and whatever save, history, put
\* and get calls follow, every record saved is still there, in its place,
\* with the fields it was saved with.  (Checked under SpecStore.)
C10_AppendOnly ==
    /\ Len(conversion_history) = Len(saved)
    /\ \A i \in 1..Len(saved) :
          conversion_history[i] = HistoryRow(saved[i][1], saved[i][2])

C10_Witness ==
    /\ Len(conversion_history) = 2
    /\ conversion_history[1] = conversion_history[2]
    /\ rate_seq = 1
    /\ lastOp.op = "recent"
    /\ Len(lastOp.records) = 1
(***************************************************************************)
(* More claims about the rate cache, under SpecCache                       *)
(***************************************************************************)
\* C11: every rate stored in the cache by cache_exchange_rates and every rate
\* returned by get_cached_rate is strictly positive, whatever mapping was
\* passed to cache_exchange_rates.
C11_RatesPositive ==
    /\ \A r \in exchange_rates : r.rate > 0
    /\ (lastOp.op = "get" /\ lastOp.result.hit) => lastOp.result.rate > 0

\* C16: at the boundary the two comparisons agree.  get_cached_rate misses
\* when no row of the pair is younger than one hour, a row of age exactly
\* one hour included; cache_exchange_rates keeps the rows of its base of age
\* exactly one hour; and at any clock reading every row get_cached_rate can
\* return is a row cache_exchange_rates for its base would keep.
BoundaryMiss ==
    (/\ lastOp.op = "get"
     /\ \A r \in PairRows(lastOp.from, lastOp.to) : Age(r) >= OneHour)
    => ~lastOp.result.hit

C16_BoundaryConsistent ==
    [][/\ BoundaryMiss'
       /\ (lastOp'.op = "put" /\ now' = now) =>
             \A r \in exchange_rates :
                (r.base_currency = lastOp'.base /\ Age(r) = OneHour)
                    => r \in exchange_rates'
       /\ \A b \in Bases : \A t \in Targets :
             SelectFresh(b, t, now - OneHour) \subseteq DeleteOld(b, now - OneHour)]_vars

C16_Witness ==
    /\ lastOp.op = "put"
    /\ \E r \in exchange_rates :
          /\ r.base_currency = lastOp.base
          /\ r.id < lastOp.first_id
          /\ Age(r) = OneHour

\* C17: cache_exchange_rates(base, rates) keeps every row of another base,
\* stale ones included, and every row of base not older than one hour; so
\* when no row of base is older than one hour, the call adds one row per
\* item of rates to the rows of base: calls inside one hour pile up rows.
BaseRows(base) == {r \in exchange_rates : r.base_currency = base}

C17_PutFrame ==
    [][(lastOp'.op = "put" /\ now' = now) =>
         /\ \A r \in exchange_rates :
               (r.base_currency # lastOp'.base \/ Age(r) <= OneHour)
                   => r \in exchange_rates'
         /\ (\A r \in BaseRows(lastOp'.base) : Age(r) <= OneHour) =>
               Cardinality({r \in exchange_rates' : r.base_currency = lastOp'.base}) =
                  Cardinality(BaseRows(lastOp'.base)) + Len(lastOp'.rates)]_vars

C17_Witness ==
    /\ lastOp.op = "put"
    /\ Len(lastOp.rates) = 1
    /\ lastOp.first_id = 2
    /\ Cardinality(BaseRows(lastOp.base)) = 2
    /\ \E r \in BaseRows(lastOp.base) : r.id = 1 /\ Age(r) > 0

(***************************************************************************)
(* Claims about both tables, under SpecReads                               *)
(***************************************************************************)
\* C18: get_cached_rate, hit or miss, and get_conversion_history leave both
\* tables as they were, stale rows of the cache included; and a
\* get_cached_rate made again at the same clock reading on the same tables
\* returns the same result.
RepeatableGet ==
    lastOp.op = "get" =>
        CachedRate(lastOp.from, lastOp.to, now) = {lastOp.result}

C18_ReadsArePure ==
    [][/\ (lastOp'.op \in {"get", "recent"} /\ now' = now) =>
             /\ exchange_rates' = exchange_rates
             /\ rate_seq' = rate_seq
             /\ conversion_history' = conversion_history
       /\ RepeatableGet']_vars

C18_Witness ==
    /\ lastOp.op = "get"
    /\ ~lastOp.result.hit
    /\ Len(conversion_history) > 0
    /\ \E r \in BaseRows(lastOp.from) : Age(r) > OneHour

(***************************************************************************)
(* Claims about storage errors, under SpecFaults                           *)
(***************************************************************************)
\* C19: a cache_exchange_rates call in which the DELETE, an INSERT or the
\* commit fails raises the error and leaves table exchange_rates exactly as
\* it was before the call: nothing pruned, nothing inserted.
C19_PutAllOrNothing ==
    [][(lastOp'.op = "put_error" /\ now' = now) =>
         /\ exchange_rates' = exchange_rates
         /\ rate_seq' = rate_seq]_vars

C19_Witness ==
    /\ lastOp.op = "put_error"
    /\ lastOp.done >= 2
    /\ \E r \in BaseRows(lastOp.base) : Age(r) > OneHour

(***************************************************************************)
(* Claims about the rate lookup path, under SpecLookup                     *)
(***************************************************************************)
\* C12: once a lookup of a pair has missed the cache, resolved and written
\* the result back, a lookup of the same pair less than one hour after the
\* write is a cache hit and calls no source.
C12_WriteBackThenHit ==
    [][(/\ ~lookup.active
        /\ lookup # NoLookup
        /\ now - lookup.at < OneHour
        /\ now' = now
        /\ lastOp' # lastOp
        /\ lastOp'.op = "get"
        /\ lastOp'.from = lookup.from
        /\ lastOp'.to = lookup.to)
       => (lastOp'.result.hit /\ pc' = "idle" /\ attempts' = attempts)]_vars

====
